---- MODULE Spec2Model ----
(***************************************************************************)
(* BaseLLM (llms/base.ts): generate with its cache handling, the uncached  *)
(* path with its lifecycle notifications, the cache key built from         *)
(* serialize(), and deserialize.                                           *)
(*                                                                         *)
(* A generate call is an async function: every await is a point where      *)
(* other work may run, so one call is a sequence of atomic steps, one per  *)
(* stretch of code between two awaits.  The cache port, the backend        *)
(* (_generate) and the notification coordinator are external: each of      *)
(* their operations either completes or fails, chosen nondeterministically.*)
(***************************************************************************)
EXTENDS Integers, Sequences, FiniteSets, TLC

\* ------------------------------------------------------------------ bounds
\* Longest prompt batch handed to generate.
MaxLen == 3
\* Longest prompt batch in the runs that make two calls on one instance.
MaxSeqLen == 1
MaxConcLen == 1
MaxRepeatLen == 2

\* The two generate calls made on the one BaseLLM instance.
Calls == {1, 2}

\* ------------------------------------------------------------ JS strings
\* A JS string is a sequence of one-character strings; Code is the UTF-16
\* code unit, which is what the default Array.prototype.sort compares.
Code(ch) ==
    CASE ch = ","  -> 44
      [] ch = "_"  -> 95
      [] ch = "a"  -> 97
      [] ch = "b"  -> 98
      [] ch = "d"  -> 100
      [] ch = "e"  -> 101
      [] ch = "f"  -> 102
      [] ch = "k"  -> 107
      [] ch = "l"  -> 108
      [] ch = "m"  -> 109
      [] ch = "o"  -> 111
      [] ch = "p"  -> 112
      [] ch = "s"  -> 115
      [] ch = "t"  -> 116
      [] ch = "y"  -> 121
      [] OTHER     -> 0

\* a < b for JS strings: the first differing code unit decides, a proper
\* prefix sorts first.
StrLess(a, b) ==
    \E k \in 1..(Len(a) + 1) :
        /\ \A j \in 1..(k - 1) : j <= Len(b) /\ a[j] = b[j]
        /\ \/ k = Len(a) + 1 /\ Len(b) >= k
           \/ k <= Len(a) /\ k <= Len(b) /\ Code(a[k]) < Code(b[k])

\* Array.prototype.join(","): the elements' strings with "," between them.
RECURSIVE JoinComma(_)
JoinComma(strs) ==
    IF Len(strs) = 0 THEN << >>
    ELSE IF Len(strs) = 1 THEN strs[1]
    ELSE strs[1] \o <<",">> \o JoinComma(Tail(strs))

\* String(v) of an entry's value: a string is itself, undefined is "" inside
\* a join, an array is the join of its elements.
ValueString(v) ==
    CASE v.kind = "string"    -> v.str
      [] v.kind = "undefined" -> << >>
      [] v.kind = "array"     -> JoinComma(v.items)

\* String([k, v]) of one entry of Object.entries(params).
EntryString(e) == e.k \o <<",">> \o ValueString(e.v)

\* ------------------------------------------------------ serialize and key
StrValue(s) == [kind |-> "string", str |-> s, items |-> << >>]
UndefinedValue == [kind |-> "undefined", str |-> << >>, items |-> << >>]
ArrayValue(xs) == [kind |-> "array", str |-> << >>, items |-> xs]

\* _llmType() of the instance (abstract in BaseLLM; a fake backend's type).
LlmType == <<"f","a","k","e">>
\* _modelType()
ModelType == <<"b","a","s","e","_","l","l","m">>

\* serialize(): the identifying parameters (none in BaseLLM), then _type and
\* _model, in insertion order.
Serialize ==
    << [k |-> <<"_","t","y","p","e">>,     v |-> StrValue(LlmType)],
       [k |-> <<"_","m","o","d","e","l">>, v |-> StrValue(ModelType)] >>

\* The value stored by params.stop = stop.
StopValue(st) == IF st.defined THEN ArrayValue(st.items) ELSE UndefinedValue

\* params = this.serialize(); params.stop = stop
ParamsWithStop(st) ==
    Append(Serialize, [k |-> <<"s","t","o","p">>, v |-> StopValue(st)])

\* The characters of a JS string written as one string value.
RECURSIVE AsString(_)
AsString(chars) ==
    IF Len(chars) = 0 THEN "" ELSE chars[1] \o AsString(Tail(chars))

\* `${Object.entries(params).sort()}`: the entries sorted by their strings,
\* joined with ",".
LlmStringKey(st) ==
    LET entries == ParamsWithStop(st)
        sorted  == SortSeq(entries,
                           LAMBDA x, y : StrLess(EntryString(x), EntryString(y)))
    IN  AsString(JoinComma([i \in 1..Len(sorted) |-> EntryString(sorted[i])]))

\* ------------------------------------------------------------------ values
PromptTexts == {"p", "q"}

\* The prompts argument: a string[] or, from an untyped caller, something
\* that is no array.
BatchesUpTo(n) ==
    UNION {[1..k -> PromptTexts] : k \in 0..n}
ArrayOf(items) == [isArray |-> TRUE, items |-> items]
NotAnArray == [isArray |-> FALSE, items |-> << >>]

\* The stop argument: undefined or a string[].
NoStop == [defined |-> FALSE, items |-> << >>]
StopOf(items) == [defined |-> TRUE, items |-> items]
StopChoices ==
    { NoStop,
      StopOf(<< <<"a">> >>),
      StopOf(<< <<"a">>, <<"a">> >>),
      StopOf(<< <<"a", ",", "a">> >>) }

\* One prompt's Generation[]: where it came from and for which prompt.
\* NoGeneration is the null a lookup answers on a miss; Unsettled marks a
\* lookup that has not completed.
NoGeneration == [src |-> "null", prompt |-> "", pos |-> 0, call |-> 0]
Unsettled == [src |-> "unsettled", prompt |-> "", pos |-> 0, call |-> 0]
\* The mark of a lookup that rejected.
FailedLookup == [src |-> "failed", prompt |-> "", pos |-> 0, call |-> 0]
StoredGeneration(p) == [src |-> "stored", prompt |-> p, pos |-> 0, call |-> 0]
\* What the backend computes for the prompt at position j of the batch it was
\* given in call c.
BackendGeneration(p, j, c) == [src |-> "backend", prompt |-> p, pos |-> j, call |-> c]

\* llmOutput: the backend's metadata map, absent, or the literal {}.
MetaChoices == {"meta", "undefined"}
EmptyMap == "{}"

NoRun == 0

\* ------------------------------------------------------------------- state
VARIABLES
    cacheOn,               \* this.cache is set
    cache,                 \* the cache port's store: <<prompt, key>> -> Generation[]
    pc,                    \* where each generate call stands
    prompts, stop, sinks,  \* the call's arguments (sinks: a manager gets configured)
    llmStringKey,          \* the call's serialized-parameters string
    pendingLookups,        \* indices whose cache.lookup has not completed
    generations,           \* the per-prompt results being assembled
    missingPromptIndices,  \* in the order the lookups reported a miss
    lookedUp,              \* what each lookup answered (history)
    forwarded,             \* the prompts handed to _generateUncached
    runManager,            \* the run handle: its run id, or NoRun
    output,                \* what _generate resolved with
    pendingUpdates,        \* positions whose cache.update has not completed
    result, err,           \* what the call resolved or rejected with
    notifications,         \* every handleLLMStart/Error/End call made, in order
    backendCalls,          \* every _generate call made, in order
    lookupCalls,           \* every cache.lookup call made, in order
    updateCalls,           \* every cache.update call made, in order
    nextRunId,             \* the next fresh run id
    data, loaded,          \* deserialize: its argument and its outcome
    viaCall, returned,     \* call(): whether generate was entered from it, its value
    adPc, adPrompts,       \* LLM._generate: where it stands, its prompts argument
    adGenerations,         \* LLM._generate: the generations pushed so far
    adAsked, adAnswers     \* every _call made: its prompt, and what it resolved with

callVars == <<pc, prompts, stop, sinks, llmStringKey, pendingLookups, generations,
              missingPromptIndices, lookedUp, forwarded, runManager, output,
              pendingUpdates, result, err>>
logVars == <<notifications, backendCalls, lookupCalls, updateCalls, nextRunId>>
deserVars == <<data, loaded>>
adapterVars == <<adPc, adPrompts, adGenerations, adAsked, adAnswers>>
vars == <<cacheOn, cache, callVars, logVars, deserVars, viaCall, returned, adapterVars>>

NoResult == [generations |-> << >>, llmOutput |-> "none", run |-> NoRun]
NoOutput == [generations |-> << >>, llmOutput |-> "none"]
NoText == [of |-> NoGeneration, candidate |-> 0]
NoData == [model |-> "-", type |-> "-", temperature |-> "-"]
NotLoaded == [kind |-> "none", temperature |-> "-"]

\* ------------------------------------------------------------- cache port
\* lookup(prompt, llmKey): the stored Generation[] or null.
Lookup(store, p, k) ==
    IF <<p, k>> \in DOMAIN store THEN store[<<p, k>>] ELSE NoGeneration

\* update(prompt, llmKey, value)
Update(store, p, k, g) ==
    [x \in DOMAIN store \cup {<<p, k>>} |-> IF x = <<p, k>> THEN g ELSE store[x]]

EmptyCache == [x \in {} |-> NoGeneration]

\* A cache already holding a generation for each prompt of `warm` under the
\* key of a call without stop.
WarmCache(warm) ==
    [x \in {<<p, LlmStringKey(NoStop)>> : p \in warm} |-> StoredGeneration(x[1])]

\* ----------------------------------------------------- decisions of generate
\* The check left out: whatever is passed goes on.
ArgumentNeverRejected(ps) == FALSE

\* if (!Array.isArray(prompts)) throw
ArgumentRejected(ps) == ~ps.isArray

\* The test left out: the cache path is taken with or without a cache.
CacheAlwaysConsulted == TRUE

\* if (!this.cache) return this._generateUncached(...)
CacheConfigured == cacheOn

\* The test left out: every index is pushed.
IsMissAlways(r) == TRUE

\* if (!result) missingPromptIndices.push(index)
IsMiss(r) == r = NoGeneration

\* The test left out: the uncached path runs even with nothing missing.
NeedsBackendAlways(missing) == TRUE

\* The test with coalescing: no backend call while another is on record.
NeedsBackendUnlessCalled(missing) == Len(missing) > 0 /\ backendCalls = << >>

\* if (missingPromptIndices.length > 0)
NeedsBackend(missing) == Len(missing) > 0

\* As many prompts as were missed, taken from the head of the batch.
ForwardedFromHead(items, missing) == [j \in 1..Len(missing) |-> items[j]]

\* missingPromptIndices.map((i) => prompts[i])
ForwardedPrompts(items, missing) ==
    [j \in 1..Len(missing) |-> items[missing[j]]]

\* The position in the backend's result taken for the index in the batch.
PromptIndexUnmapped(missing, index) == index

\* const promptIndex = missingPromptIndices[index]
PromptIndex(missing, index) == missing[index]

\* generations[promptIndex] = generation, for every returned generation
Spliced(gens, missing, outs) ==
    [i \in 1..Len(gens) |->
        IF \E j \in 1..Len(outs) : PromptIndex(missing, j) = i
        THEN outs[CHOOSE j \in 1..Len(outs) :
                     /\ PromptIndex(missing, j) = i
                     /\ \A k \in 1..Len(outs) : PromptIndex(missing, k) = i => k <= j]
        ELSE gens[i]]

\* Every write filed under the first prompt of the batch.
UpdatesIssuedUnderFirstPrompt(c, items, missing, key, outs) ==
    [j \in 1..Len(outs) |->
        [call |-> c, prompt |-> items[1], key |-> key, value |-> outs[j]]]

\* cache.update(prompts[promptIndex], llmStringKey, generation), one call per
\* returned generation, issued in the order of the generations.
UpdatesIssued(c, items, missing, key, outs) ==
    [j \in 1..Len(outs) |->
        [call |-> c, prompt |-> items[PromptIndex(missing, j)], key |-> key,
         value |-> outs[j]]]

\* cache.lookup(prompt, llmStringKey), one call per prompt, issued in order.
LookupsIssued(c, items, key) ==
    [i \in 1..Len(items) |-> [call |-> c, prompt |-> items[i], key |-> key]]

\* llmOutput = results.llmOutput ?? {}
MetaOrEmpty(meta) == IF meta = "undefined" THEN EmptyMap ELSE meta

\* return { generations, llmOutput }
CachedResult(gens, meta) == [generations |-> gens, llmOutput |-> meta, run |-> NoRun]

\* output.__run = runManager ? { runId } : undefined; return output
UncachedResult(out, run) ==
    [generations |-> out.generations, llmOutput |-> out.llmOutput, run |-> run]

\* ------------------------------------------------ decisions of the uncached path
Notice(type, c, run, ps) == [type |-> type, call |-> c, run |-> run, prompts |-> ps]

\* The catch block without its throw: control falls through to handleLLMEnd.
OnFailureNoticesFallThrough(c, run) ==
    << Notice("error", c, run, << >>), Notice("end", c, run, << >>) >>

\* catch (err) { await runManager?.handleLLMError(err); throw err }
OnFailureNotices(c, run) == << Notice("error", c, run, << >>) >>

\* await runManager?.handleLLMEnd(output)
OnSuccessNotices(c, run) == << Notice("end", c, run, << >>) >>

\* throw err: the value _generate rejected with
Rethrown(raised) == raised

\* _generate invoked without its third argument.
BackendCallWithoutHandle(c, ps, st, run) ==
    [call |-> c, prompts |-> ps, stop |-> st, run |-> NoRun]

\* this._generate(prompts, stop, runManager)
BackendCall(c, ps, st, run) == [call |-> c, prompts |-> ps, stop |-> st, run |-> run]

\* The backend's result: one Generation[] per prompt it was given, in order.
BackendOutput(c, ps, meta) ==
    [generations |-> [j \in 1..Len(ps) |-> BackendGeneration(ps[j], j, c)],
     llmOutput |-> meta]

\* The run id handleLLMStart drew for call c.
RunStartedBy(c) ==
    LET i == CHOOSE k \in 1..Len(notifications) :
                 notifications[k].call = c /\ notifications[k].type = "start"
    IN  notifications[i].run

\* ----------------------------------------------------------------- generate
\* generate(prompts, stop, callbacks) up to its first await: the argument
\* check, the choice of path, the key and the cache lookups, all issued at once.
Generate(c, ps, st, sk) ==
    /\ pc[c] = "idle"
    /\ prompts' = [prompts EXCEPT ![c] = ps]
    /\ stop' = [stop EXCEPT ![c] = st]
    /\ sinks' = [sinks EXCEPT ![c] = sk]
    /\ IF ArgumentRejected(ps)
       THEN /\ pc' = [pc EXCEPT ![c] = "failed"]
            /\ err' = [err EXCEPT ![c] = "InvalidArgument"]
            /\ UNCHANGED <<llmStringKey, pendingLookups, generations, lookedUp,
                           forwarded, result, lookupCalls>>
       ELSE IF ~CacheConfigured
       THEN /\ forwarded' = [forwarded EXCEPT ![c] = ps.items]
            /\ pc' = [pc EXCEPT ![c] = "configure"]
            /\ UNCHANGED <<llmStringKey, pendingLookups, generations, lookedUp,
                           result, err, lookupCalls>>
       ELSE LET key == LlmStringKey(st)
                n   == Len(ps.items)
            IN  /\ llmStringKey' = [llmStringKey EXCEPT ![c] = key]
                /\ lookupCalls' = lookupCalls \o LookupsIssued(c, ps.items, key)
                /\ pendingLookups' = [pendingLookups EXCEPT ![c] = 1..n]
                /\ generations' = [generations EXCEPT ![c] = [i \in 1..n |-> Unsettled]]
                /\ lookedUp' = [lookedUp EXCEPT ![c] = [i \in 1..n |-> Unsettled]]
                /\ IF n = 0
                   THEN /\ pc' = [pc EXCEPT ![c] = "done"]
                        /\ result' = [result EXCEPT ![c] = CachedResult(<< >>, EmptyMap)]
                   ELSE /\ pc' = [pc EXCEPT ![c] = "lookups"]
                        /\ UNCHANGED result
                /\ UNCHANGED <<forwarded, err>>
    /\ UNCHANGED <<cacheOn, cache, missingPromptIndices, runManager, output,
                   pendingUpdates, notifications, backendCalls, updateCalls,
                   nextRunId, deserVars, returned, adapterVars>>

\* One cache.lookup resolves: its callback records a miss; when it is the last
\* and none has rejected, Promise.all resolves and generate goes on to the
\* backend or returns.
LookupCompletes(c, i) ==
    /\ i \in pendingLookups[c]
    /\ LET r       == Lookup(cache, prompts[c].items[i], llmStringKey[c])
           gens    == [generations[c] EXCEPT ![i] = r]
           missing == IF IsMiss(r) THEN Append(missingPromptIndices[c], i)
                      ELSE missingPromptIndices[c]
           left    == pendingLookups[c] \ {i}
       IN  /\ generations' = [generations EXCEPT ![c] = gens]
           /\ lookedUp' = [lookedUp EXCEPT ![c][i] = r]
           /\ missingPromptIndices' = [missingPromptIndices EXCEPT ![c] = missing]
           /\ pendingLookups' = [pendingLookups EXCEPT ![c] = left]
           /\ IF left # {} \/ pc[c] # "lookups"
              THEN UNCHANGED <<pc, forwarded, result>>
              ELSE IF NeedsBackend(missing)
              THEN /\ forwarded' = [forwarded EXCEPT ![c] =
                                       ForwardedPrompts(prompts[c].items, missing)]
                   /\ pc' = [pc EXCEPT ![c] = "configure"]
                   /\ UNCHANGED result
              ELSE /\ pc' = [pc EXCEPT ![c] = "done"]
                   /\ result' = [result EXCEPT ![c] = CachedResult(gens, EmptyMap)]
                   /\ UNCHANGED forwarded
    /\ UNCHANGED <<cacheOn, cache, prompts, stop, sinks, llmStringKey, runManager,
                   output, pendingUpdates, err, logVars, deserVars, viaCall, returned, adapterVars>>

\* A rejected lookup taken for a miss: generate goes on as if nothing was stored.
LookupFailsAsMiss(c, i) ==
    /\ i \in pendingLookups[c]
    /\ LET missing == Append(missingPromptIndices[c], i)
           left    == pendingLookups[c] \ {i}
       IN  /\ lookedUp' = [lookedUp EXCEPT ![c][i] = FailedLookup]
           /\ generations' = [generations EXCEPT ![c][i] = NoGeneration]
           /\ missingPromptIndices' = [missingPromptIndices EXCEPT ![c] = missing]
           /\ pendingLookups' = [pendingLookups EXCEPT ![c] = left]
           /\ IF left # {}
              THEN UNCHANGED <<pc, forwarded>>
              ELSE /\ forwarded' = [forwarded EXCEPT ![c] =
                                       ForwardedPrompts(prompts[c].items, missing)]
                   /\ pc' = [pc EXCEPT ![c] = "configure"]
    /\ UNCHANGED <<cacheOn, cache, prompts, stop, sinks, llmStringKey, runManager,
                   output, pendingUpdates, result, err, logVars, deserVars, viaCall,
                   returned, adapterVars>>

\* One cache.lookup rejects: Promise.all rejects with the first rejection and
\* generate fails with it, while the lookups still in flight go on.
LookupFails(c, i) ==
    /\ i \in pendingLookups[c]
    /\ pendingLookups' = [pendingLookups EXCEPT ![c] = @ \ {i}]
    /\ lookedUp' = [lookedUp EXCEPT ![c][i] = FailedLookup]
    /\ IF pc[c] = "lookups"
       THEN /\ pc' = [pc EXCEPT ![c] = "failed"]
            /\ err' = [err EXCEPT ![c] = "CacheFailure"]
       ELSE UNCHANGED <<pc, err>>
    /\ UNCHANGED <<cacheOn, cache, prompts, stop, sinks, llmStringKey,
                   generations, missingPromptIndices, forwarded, runManager,
                   output, pendingUpdates, result, logVars, deserVars, viaCall,
                   returned, adapterVars>>

\* ------------------------------------------------------- _generateUncached
\* CallbackManager.configure and callbackManager_?.handleLLMStart: with sinks,
\* the start notification goes out under a fresh run id; without, there is no
\* manager, no run handle, and _generate is invoked right away.
HandleLLMStart(c) ==
    /\ pc[c] = "configure"
    /\ IF sinks[c]
       THEN /\ notifications' = Append(notifications,
                                   Notice("start", c, nextRunId, forwarded[c]))
            /\ nextRunId' = nextRunId + 1
            /\ pc' = [pc EXCEPT ![c] = "starting"]
            /\ UNCHANGED backendCalls
       ELSE /\ backendCalls' = Append(backendCalls,
                                   BackendCall(c, forwarded[c], stop[c], NoRun))
            /\ pc' = [pc EXCEPT ![c] = "backend"]
            /\ UNCHANGED <<notifications, nextRunId>>
    /\ UNCHANGED <<cacheOn, cache, prompts, stop, sinks, llmStringKey, pendingLookups,
                   generations, missingPromptIndices, lookedUp, forwarded, runManager,
                   output, pendingUpdates, result, err, lookupCalls, updateCalls,
                   deserVars, viaCall, returned, adapterVars>>

\* handleLLMStart resolves with the run handle; _generate is invoked with it.
StartCompletes(c) ==
    /\ pc[c] = "starting"
    /\ runManager' = [runManager EXCEPT ![c] = RunStartedBy(c)]
    /\ backendCalls' = Append(backendCalls,
                          BackendCall(c, forwarded[c], stop[c], RunStartedBy(c)))
    /\ pc' = [pc EXCEPT ![c] = "backend"]
    /\ UNCHANGED <<cacheOn, cache, prompts, stop, sinks, llmStringKey, pendingLookups,
                   generations, missingPromptIndices, lookedUp, forwarded, output,
                   pendingUpdates, result, err, notifications, lookupCalls,
                   updateCalls, nextRunId, deserVars, viaCall, returned, adapterVars>>

\* A notification rejects (a sink throws): the await rethrows it.
NotificationFails(c) ==
    /\ pc[c] \in {"starting", "ending", "erroring"}
    /\ pc' = [pc EXCEPT ![c] = "failed"]
    /\ err' = [err EXCEPT ![c] = "SinkFailure"]
    /\ UNCHANGED <<cacheOn, cache, prompts, stop, sinks, llmStringKey, pendingLookups,
                   generations, missingPromptIndices, lookedUp, forwarded, runManager,
                   output, pendingUpdates, result, logVars, deserVars, viaCall, returned, adapterVars>>

\* The value _generateUncached resolved with reaches its caller: generate
\* returns it as it is, or splices it into the lookups' results and issues the
\* cache updates, all at once.
ReturnFromUncached(c, out, run) ==
    IF ~CacheConfigured
    THEN /\ pc' = [pc EXCEPT ![c] = "done"]
         /\ result' = [result EXCEPT ![c] = UncachedResult(out, run)]
         /\ UNCHANGED <<generations, pendingUpdates, updateCalls>>
    ELSE /\ generations' = [generations EXCEPT ![c] =
                               Spliced(generations[c], missingPromptIndices[c],
                                       out.generations)]
         /\ updateCalls' = updateCalls \o
                UpdatesIssued(c, prompts[c].items, missingPromptIndices[c],
                              llmStringKey[c], out.generations)
         /\ pendingUpdates' = [pendingUpdates EXCEPT ![c] = 1..Len(out.generations)]
         /\ pc' = [pc EXCEPT ![c] = "updates"]
         /\ UNCHANGED result

\* _generate resolves: the end notification goes out if there is a run handle.
BackendResolves(c, meta) ==
    /\ pc[c] = "backend"
    /\ LET out == BackendOutput(c, forwarded[c], meta)
       IN  /\ output' = [output EXCEPT ![c] = out]
           /\ IF runManager[c] # NoRun
              THEN /\ notifications' = notifications \o OnSuccessNotices(c, runManager[c])
                   /\ pc' = [pc EXCEPT ![c] = "ending"]
                   /\ UNCHANGED <<generations, pendingUpdates, updateCalls, result>>
              ELSE /\ ReturnFromUncached(c, out, NoRun)
                   /\ UNCHANGED notifications
    /\ UNCHANGED <<cacheOn, cache, prompts, stop, sinks, llmStringKey, pendingLookups,
                   missingPromptIndices, lookedUp, forwarded, runManager, err,
                   backendCalls, lookupCalls, nextRunId, deserVars, viaCall, returned, adapterVars>>

\* handleLLMEnd resolves: __run is attached and the output returned.
EndCompletes(c) ==
    /\ pc[c] = "ending"
    /\ ReturnFromUncached(c, output[c], runManager[c])
    /\ UNCHANGED <<cacheOn, cache, prompts, stop, sinks, llmStringKey, pendingLookups,
                   missingPromptIndices, lookedUp, forwarded, runManager, output, err,
                   notifications, backendCalls, lookupCalls, nextRunId, deserVars, viaCall, returned, adapterVars>>

\* A rejecting _generate that is tried a second time before giving up.
BackendRejectsRetry(c) ==
    /\ pc[c] = "backend"
    /\ backendCalls' = Append(backendCalls,
                          BackendCall(c, forwarded[c], stop[c], runManager[c]))
    /\ UNCHANGED <<cacheOn, cache, callVars, notifications, lookupCalls, updateCalls,
                   nextRunId, deserVars, viaCall, returned, adapterVars>>

\* _generate rejects: the error notification goes out if there is a run handle,
\* and without one the failure is rethrown at once.
BackendRejects(c) ==
    /\ pc[c] = "backend"
    /\ IF runManager[c] # NoRun
       THEN /\ notifications' = notifications \o OnFailureNotices(c, runManager[c])
            /\ pc' = [pc EXCEPT ![c] = "erroring"]
            /\ UNCHANGED err
       ELSE /\ pc' = [pc EXCEPT ![c] = "failed"]
            /\ err' = [err EXCEPT ![c] = Rethrown("BackendFailure")]
            /\ UNCHANGED notifications
    /\ UNCHANGED <<cacheOn, cache, prompts, stop, sinks, llmStringKey, pendingLookups,
                   generations, missingPromptIndices, lookedUp, forwarded, runManager,
                   output, pendingUpdates, result, backendCalls, lookupCalls,
                   updateCalls, nextRunId, deserVars, viaCall, returned, adapterVars>>

\* handleLLMError resolves: throw err.
ErrorCompletes(c) ==
    /\ pc[c] = "erroring"
    /\ pc' = [pc EXCEPT ![c] = "failed"]
    /\ err' = [err EXCEPT ![c] = Rethrown("BackendFailure")]
    /\ UNCHANGED <<cacheOn, cache, prompts, stop, sinks, llmStringKey, pendingLookups,
                   generations, missingPromptIndices, lookedUp, forwarded, runManager,
                   output, pendingUpdates, result, logVars, deserVars, viaCall, returned, adapterVars>>

\* ------------------------------------------------------- the cache updates
\* One cache.update resolves: the store holds the value; when it is the last,
\* Promise.all resolves and generate returns the merged result.
UpdateCompletes(c, j) ==
    /\ j \in pendingUpdates[c]
    /\ LET left == pendingUpdates[c] \ {j}
           u    == UpdatesIssued(c, prompts[c].items, missingPromptIndices[c],
                                 llmStringKey[c], output[c].generations)[j]
       IN  /\ cache' = Update(cache, u.prompt, u.key, u.value)
           /\ pendingUpdates' = [pendingUpdates EXCEPT ![c] = left]
           /\ IF left = {} /\ pc[c] = "updates"
              THEN /\ pc' = [pc EXCEPT ![c] = "done"]
                   /\ result' = [result EXCEPT ![c] =
                          CachedResult(generations[c], MetaOrEmpty(output[c].llmOutput))]
              ELSE UNCHANGED <<pc, result>>
    /\ UNCHANGED <<cacheOn, prompts, stop, sinks, llmStringKey, pendingLookups,
                   generations, missingPromptIndices, lookedUp, forwarded, runManager,
                   output, err, logVars, deserVars, viaCall, returned, adapterVars>>

\* A rejecting cache.update that takes its generation out of the merged
\* sequence again.
UpdateFailsUnsplices(c, j) ==
    /\ j \in pendingUpdates[c]
    /\ pendingUpdates' = [pendingUpdates EXCEPT ![c] = @ \ {j}]
    /\ generations' = [generations EXCEPT
                          ![c][PromptIndex(missingPromptIndices[c], j)] = NoGeneration]
    /\ IF pc[c] = "updates"
       THEN /\ pc' = [pc EXCEPT ![c] = "failed"]
            /\ err' = [err EXCEPT ![c] = "CacheFailure"]
       ELSE UNCHANGED <<pc, err>>
    /\ UNCHANGED <<cacheOn, cache, prompts, stop, sinks, llmStringKey, pendingLookups,
                   missingPromptIndices, lookedUp, forwarded, runManager,
                   output, result, logVars, deserVars, viaCall, returned, adapterVars>>

\* One cache.update rejects: Promise.all rejects and generate fails with it,
\* while the updates still in flight go on.
UpdateFails(c, j) ==
    /\ j \in pendingUpdates[c]
    /\ pendingUpdates' = [pendingUpdates EXCEPT ![c] = @ \ {j}]
    /\ IF pc[c] = "updates"
       THEN /\ pc' = [pc EXCEPT ![c] = "failed"]
            /\ err' = [err EXCEPT ![c] = "CacheFailure"]
       ELSE UNCHANGED <<pc, err>>
    /\ UNCHANGED <<cacheOn, cache, prompts, stop, sinks, llmStringKey, pendingLookups,
                   generations, missingPromptIndices, lookedUp, forwarded, runManager,
                   output, result, logVars, deserVars, viaCall, returned, adapterVars>>

\* -------------------------------------------------------------- deserialize
\* A field that the record does not have.
Absent == "<absent>"

ModelChoices == {Absent, "", "base_llm", "base_chat_model", "llm"}
TypeChoices == {Absent, "", "openai", "cohere", "constructor", "toString"}
TemperatureChoices == {Absent, "0", "1"}

Records ==
    [model : ModelChoices, type : TypeChoices, temperature : TemperatureChoices]

\* _model && ...: undefined and "" are falsy
Truthy(x) == x \notin {Absent, ""}

\* The test without its `_model &&`: a record without _model is rejected too.
ModelRejectedUnlessExpected(m) == m # "base_llm"

\* if (_model && _model !== "base_llm") throw
ModelRejected(m) == Truthy(m) /\ m # "base_llm"

\* { openai: OpenAI }[_type]: an own property, else one inherited from
\* Object.prototype, else undefined (an absent _type reads key "undefined").
RegistryLookup(t) ==
    CASE t = "openai"      -> "OpenAI"
      [] t = "constructor" -> "Object"
      [] t = "toString"    -> "Object.prototype.toString"
      [] OTHER             -> "undefined"

\* new Cls(rest)
Construct(cls, d) ==
    CASE cls = "OpenAI" -> [kind |-> "OpenAI", temperature |-> d.temperature]
      [] cls = "Object" -> [kind |-> "Object", temperature |-> d.temperature]
      [] OTHER          -> [kind |-> "NotAConstructor", temperature |-> Absent]

\* static deserialize(data): what it resolves or rejects with
Load(d) ==
    IF ModelRejected(d.model)
    THEN [kind |-> "CannotLoadModel", temperature |-> Absent]
    ELSE IF RegistryLookup(d.type) = "undefined"
    THEN [kind |-> "CannotLoadType", temperature |-> Absent]
    ELSE Construct(RegistryLookup(d.type), d)

Deserialize ==
    /\ data # NoData
    /\ loaded = NotLoaded
    /\ loaded' = Load(data)
    /\ UNCHANGED <<cacheOn, cache, callVars, logVars, data, viaCall, returned,
                   adapterVars>>

\* ------------------------------------------------------------------- call
\* The candidates of one per-prompt result (a Generation[]): the k-th
\* candidate's text is told apart by the result it belongs to and by k.
CandidatesPerPrompt == 2
Candidates(g) == [k \in 1..CandidatesPerPrompt |-> [text |-> [of |-> g, candidate |-> k]]]

ReturnedLastCandidate(res) ==
    Candidates(res.generations[1])[Len(Candidates(res.generations[1]))].text

\* return generations[0][0].text
Returned(res) == Candidates(res.generations[1])[1].text

\* call(prompt, stop, callbacks) up to the first await of generate([prompt]).
Call(c, p, st, sk) ==
    /\ Generate(c, ArrayOf(<<p>>), st, sk)
    /\ viaCall' = [viaCall EXCEPT ![c] = TRUE]

\* generate has resolved: call returns the text it picks from the result.
CallReturns(c) ==
    /\ viaCall[c]
    /\ pc[c] = "done"
    /\ returned[c] = NoText
    /\ returned' = [returned EXCEPT ![c] = Returned(result[c])]
    /\ UNCHANGED <<cacheOn, cache, callVars, logVars, deserVars, viaCall, adapterVars>>

\* ------------------------------------------------------- LLM: the adapter
\* The strings a _call may resolve with.
AdapterTexts == {"x", "y"}

PushedFront(gens, text) == << <<[text |-> text]>> >> \o gens

\* generations.push([{ text }])
Pushed(gens, text) == Append(gens, <<[text |-> text]>>)

\* LLM._generate(prompts) up to its first await: the loop asks _call for the
\* first prompt, or returns at once when there is none.
AdapterGenerate(ps) ==
    /\ adPc = "idle"
    /\ adPrompts' = ps
    /\ adGenerations' = << >>
    /\ IF Len(ps) = 0
       THEN adPc' = "done" /\ UNCHANGED adAsked
       ELSE adPc' = "calling" /\ adAsked' = Append(adAsked, ps[1])
    /\ UNCHANGED <<cacheOn, cache, callVars, logVars, deserVars, viaCall, returned,
                   adAnswers>>

\* The awaited _call resolves with text: it is pushed, and the loop asks for
\* the next prompt or returns.
CallResolves(text) ==
    /\ adPc = "calling"
    /\ LET gens == Pushed(adGenerations, text)
           i    == Len(adAnswers) + 1
       IN  /\ adGenerations' = gens
           /\ adAnswers' = Append(adAnswers, text)
           /\ IF i < Len(adPrompts)
              THEN adAsked' = Append(adAsked, adPrompts[i + 1]) /\ UNCHANGED adPc
              ELSE adPc' = "done" /\ UNCHANGED adAsked
    /\ UNCHANGED <<cacheOn, cache, callVars, logVars, deserVars, viaCall, returned,
                   adPrompts>>

\* The awaited _call rejects: the loop is left and _generate rejects.
CallRejects ==
    /\ adPc = "calling"
    /\ adPc' = "failed"
    /\ UNCHANGED <<cacheOn, cache, callVars, logVars, deserVars, viaCall, returned,
                   adPrompts, adGenerations, adAsked, adAnswers>>

\* ------------------------------------------------------------ specifications
InitCalls ==
    /\ pc = [c \in Calls |-> "idle"]
    /\ prompts = [c \in Calls |-> ArrayOf(<< >>)]
    /\ stop = [c \in Calls |-> NoStop]
    /\ sinks = [c \in Calls |-> FALSE]
    /\ llmStringKey = [c \in Calls |-> ""]
    /\ pendingLookups = [c \in Calls |-> {}]
    /\ generations = [c \in Calls |-> << >>]
    /\ missingPromptIndices = [c \in Calls |-> << >>]
    /\ lookedUp = [c \in Calls |-> << >>]
    /\ forwarded = [c \in Calls |-> << >>]
    /\ runManager = [c \in Calls |-> NoRun]
    /\ output = [c \in Calls |-> NoOutput]
    /\ pendingUpdates = [c \in Calls |-> {}]
    /\ result = [c \in Calls |-> NoResult]
    /\ err = [c \in Calls |-> "none"]
    /\ notifications = << >>
    /\ backendCalls = << >>
    /\ lookupCalls = << >>
    /\ updateCalls = << >>
    /\ nextRunId = 1
    /\ viaCall = [c \in Calls |-> FALSE]
    /\ returned = [c \in Calls |-> NoText]
    /\ adPc = "idle"
    /\ adPrompts = << >>
    /\ adGenerations = << >>
    /\ adAsked = << >>
    /\ adAnswers = << >>

\* The steps of call c after generate has been entered.
Step(c) ==
    \/ \E i \in 1..MaxLen : LookupCompletes(c, i)
    \/ \E i \in 1..MaxLen : LookupFails(c, i)
    \/ HandleLLMStart(c)
    \/ StartCompletes(c)
    \/ NotificationFails(c)
    \/ \E meta \in MetaChoices : BackendResolves(c, meta)
    \/ BackendRejects(c)
    \/ EndCompletes(c)
    \/ ErrorCompletes(c)
    \/ \E j \in 1..MaxLen : UpdateCompletes(c, j)
    \/ \E j \in 1..MaxLen : UpdateFails(c, j)

\* One generate call on an instance with or without a cache; the cache holds
\* a generation for prompt "p" under the key of a call without stop, so that a
\* batch can hit on all, some or none of its prompts.
WarmPrompts == {"p"}
SingleCallStops == {NoStop, StopOf(<< >>), StopOf(<< <<"a">> >>)}

Init ==
    /\ InitCalls
    /\ cacheOn \in BOOLEAN
    /\ cache = IF cacheOn THEN WarmCache(WarmPrompts) ELSE EmptyCache
    /\ data = NoData
    /\ loaded = NotLoaded

Next ==
    \/ \E items \in BatchesUpTo(MaxLen), st \in SingleCallStops, sk \in BOOLEAN :
           Generate(1, ArrayOf(items), st, sk) /\ UNCHANGED viaCall
    \/ \E st \in SingleCallStops, sk \in BOOLEAN :
           Generate(1, NotAnArray, st, sk) /\ UNCHANGED viaCall
    \/ Step(1)

Spec == Init /\ [][Next]_vars

\* Two generate calls on one instance with an empty cache, the second made
\* with the prompts of the first once the first has settled.
Settled(c) ==
    /\ pc[c] \in {"done", "failed"}
    /\ pendingLookups[c] = {} /\ pendingUpdates[c] = {}

InitSeq ==
    /\ InitCalls
    /\ cacheOn = TRUE
    /\ cache = EmptyCache
    /\ data = NoData
    /\ loaded = NotLoaded

NextSeq ==
    \/ \E items \in BatchesUpTo(MaxSeqLen), st \in StopChoices, sk \in BOOLEAN :
           Generate(1, ArrayOf(items), st, sk) /\ UNCHANGED viaCall
    \/ \E st \in StopChoices :
           Settled(1) /\ Generate(2, prompts[1], st, sinks[1]) /\ UNCHANGED viaCall
    \/ \E c \in Calls : Step(c)

SpecSeq == InitSeq /\ [][NextSeq]_vars

\* Two generate calls on one instance with an empty cache that overlap in
\* time: the second is made with the arguments of the first at any moment
\* after the first was made.
NextConc ==
    \/ \E items \in BatchesUpTo(MaxConcLen), sk \in BOOLEAN :
           Generate(1, ArrayOf(items), NoStop, sk) /\ UNCHANGED viaCall
    \/ /\ pc[1] # "idle"
       /\ Generate(2, prompts[1], stop[1], sinks[1]) /\ UNCHANGED viaCall
    \/ \E c \in Calls : Step(c)

SpecConc == InitSeq /\ [][NextConc]_vars

\* A generate call on an instance with an empty cache and, once it has
\* returned, a second generate call with the same arguments.
NextRepeat ==
    \/ \E items \in BatchesUpTo(MaxRepeatLen), st \in SingleCallStops, sk \in BOOLEAN :
           Generate(1, ArrayOf(items), st, sk) /\ UNCHANGED viaCall
    \/ /\ pc[1] = "done"
       /\ Generate(2, prompts[1], stop[1], sinks[1]) /\ UNCHANGED viaCall
    \/ \E c \in Calls : Step(c)

SpecRepeat == InitSeq /\ [][NextRepeat]_vars

\* deserialize applied to one record.
InitLoad ==
    /\ InitCalls
    /\ cacheOn = FALSE
    /\ cache = EmptyCache
    /\ data \in Records
    /\ loaded = NotLoaded

NextLoad == Deserialize

SpecLoad == InitLoad /\ [][NextLoad]_vars

\* LLM._generate applied to one batch.
InitAdapter ==
    /\ InitCalls
    /\ cacheOn = FALSE
    /\ cache = EmptyCache
    /\ data = NoData
    /\ loaded = NotLoaded

NextAdapter ==
    \/ \E ps \in BatchesUpTo(MaxLen) : AdapterGenerate(ps)
    \/ \E text \in AdapterTexts : CallResolves(text)
    \/ CallRejects

SpecAdapter == InitAdapter /\ [][NextAdapter]_vars

\* Two uses of call(), the second once the first has settled, on an instance
\* with or without a cache that holds a generation for prompt "p".
NextCall ==
    \/ \E p \in PromptTexts, st \in {NoStop}, sk \in BOOLEAN : Call(1, p, st, sk)
    \/ \E p \in PromptTexts, st \in {NoStop} :
           Settled(1) /\ Call(2, p, st, sinks[1])
    \/ \E c \in Calls : Step(c)
    \/ \E c \in Calls : CallReturns(c)

SpecCall == Init /\ [][NextCall]_vars

\* ===================================================================== claims
\* What the claims speak about, read off the state.
Items(c) == prompts[c].items
Entered(c) == pc[c] # "idle"
CachedCall(c) == Entered(c) /\ cacheOn /\ prompts[c].isArray
LookupsSettled(c) ==
    /\ Len(lookedUp[c]) = Len(Items(c))
    /\ \A i \in 1..Len(Items(c)) : lookedUp[c][i] # Unsettled
MissAt(c, i) == lookedUp[c][i] = NoGeneration
HitAt(c, i) == lookedUp[c][i] \notin {NoGeneration, Unsettled, FailedLookup}
BackendCallsOf(c) == SelectSeq(backendCalls, LAMBDA b : b.call = c)
UpdateCallsOf(c) == SelectSeq(updateCalls, LAMBDA u : u.call = c)
LookupCallsOf(c) == SelectSeq(lookupCalls, LAMBDA l : l.call = c)
NoticesOf(c) == SelectSeq(notifications, LAMBDA n : n.call = c)
NoticesOfType(c, types) ==
    SelectSeq(notifications, LAMBDA n : n.call = c /\ n.type \in types)

\* The prompts of call c whose lookup missed, by ascending index.
RECURSIVE MissesFrom(_, _)
MissesFrom(c, i) ==
    IF i > Len(Items(c)) THEN << >>
    ELSE (IF MissAt(c, i) THEN <<Items(c)[i]>> ELSE << >>) \o MissesFrom(c, i + 1)
MissSubset(c) == MissesFrom(c, 1)

\* C1 (as claimed): whenever a cache-enabled generate has invoked the backend,
\* the backend was given exactly the prompts whose lookup missed, in ascending
\* order of their index in the batch, whatever order the lookups completed in.
C1_BackendGetsMissesInBatchOrder ==
    \A c \in Calls :
        CachedCall(c) =>
            \A k \in 1..Len(BackendCallsOf(c)) :
                BackendCallsOf(c)[k].prompts = MissSubset(c)

\* C2: a cache-enabled generate that has returned after its backend answered
\* with one result per forwarded prompt returns as many results as it was given
\* prompts; at a hit index the result is what the lookup answered, at a miss
\* index it is the result the backend computed for the prompt of that index
\* (the one at the position where that index was forwarded).
C2_MergedResultByIndex ==
    \A c \in Calls :
        (CachedCall(c) /\ pc[c] = "done") =>
            /\ Len(result[c].generations) = Len(Items(c))
            /\ \A i \in 1..Len(Items(c)) :
                  /\ HitAt(c, i) => result[c].generations[i] = lookedUp[c][i]
                  /\ MissAt(c, i) =>
                        \E j \in 1..Len(missingPromptIndices[c]) :
                            /\ missingPromptIndices[c][j] = i
                            /\ BackendCallsOf(c)[1].prompts[j] = Items(c)[i]
                            /\ result[c].generations[i] =
                                   BackendGeneration(Items(c)[i], j, c)

\* C2 witness: a three-prompt call has returned with a hit in the middle and
\* the two misses reported in descending order.
C2_Witness ==
    /\ cacheOn /\ pc[1] = "done"
    /\ Len(Items(1)) = 3
    /\ HitAt(1, 2)
    /\ missingPromptIndices[1] = <<3, 1>>

\* C3: a cache-enabled generate whose lookups all hit has returned, without the
\* backend ever being invoked for it, the looked-up values in input order and an
\* empty metadata map.
C3_AllHitsSkipBackend ==
    \A c \in Calls :
        (CachedCall(c) /\ LookupsSettled(c)
            /\ \A i \in 1..Len(Items(c)) : HitAt(c, i)) =>
            /\ pc[c] = "done"
            /\ BackendCallsOf(c) = << >>
            /\ result[c].generations = lookedUp[c]
            /\ result[c].llmOutput = EmptyMap

\* C3 witness: a three-prompt call whose prompts were all found has returned.
C3_Witness ==
    /\ cacheOn /\ pc[1] = "done"
    /\ Len(Items(1)) = 3
    /\ \A i \in 1..3 : HitAt(1, i)

\* C4: the cache updates of a generate call are one per missed index at most:
\* the j-th is for the index whose miss was the j-th reported, that index's
\* lookup missed, and the update carries that prompt's text and the call's
\* serialized-parameters string; so no index whose lookup hit gets an update.
C4_UpdatesOnlyForMisses ==
    \A c \in Calls :
        /\ Len(UpdateCallsOf(c)) <= Len(missingPromptIndices[c])
        /\ \A j \in 1..Len(UpdateCallsOf(c)) :
              LET i == missingPromptIndices[c][j]
                  u == UpdateCallsOf(c)[j]
              IN  /\ MissAt(c, i)
                  /\ u.prompt = Items(c)[i]
                  /\ u.key = LlmStringKey(stop[c])
        /\ \A i \in 1..Len(lookedUp[c]) :
              HitAt(c, i) =>
                  Cardinality({j \in 1..Len(UpdateCallsOf(c)) :
                                  UpdateCallsOf(c)[j].prompt = Items(c)[i]})
                  <= Cardinality({k \in 1..Len(Items(c)) :
                                  MissAt(c, k) /\ Items(c)[k] = Items(c)[i]})

\* C4 witness: updates have been issued in a call that had a hit and a miss.
C4_Witness ==
    /\ UpdateCallsOf(1) # << >>
    /\ \E i, k \in 1..Len(Items(1)) : HitAt(1, i) /\ MissAt(1, k)

\* C5: without a cache, generate issues no cache lookup and no cache update,
\* invokes the backend with the whole batch, and returns the backend's output
\* with the run id of its run handle attached (none without a handle).
C5_NoCacheDelegates ==
    ~cacheOn =>
        /\ lookupCalls = << >>
        /\ updateCalls = << >>
        /\ \A c \in Calls :
              /\ \A k \in 1..Len(BackendCallsOf(c)) :
                    /\ BackendCallsOf(c)[k].prompts = Items(c)
                    /\ BackendCallsOf(c)[k].stop = stop[c]
              /\ pc[c] = "done" =>
                    /\ Len(BackendCallsOf(c)) = 1
                    /\ result[c].generations = output[c].generations
                    /\ result[c].llmOutput = output[c].llmOutput
                    /\ result[c].run = runManager[c]
                    /\ output[c] = BackendOutput(c, Items(c), output[c].llmOutput)

\* C5 witness: a call without cache has returned a two-prompt result that
\* carries a run id.
C5_Witness ==
    /\ ~cacheOn /\ pc[1] = "done"
    /\ Len(result[1].generations) = 2
    /\ result[1].run # NoRun

\* C6: for a run whose handle was obtained, the notifications of its run id are
\* the start followed by at most one terminal notification (error or end, not
\* both, not twice): none while the backend is at work, exactly one from the
\* moment the backend has answered, whatever happens afterwards.  A
\* notification counts from the moment the coordinator is asked to emit it.
C6_OneTerminalAfterStart ==
    \A c \in Calls :
        runManager[c] # NoRun =>
            LET ns == SelectSeq(notifications, LAMBDA n : n.run = runManager[c])
            IN  /\ Len(ns) >= 1
                /\ ns[1].type = "start"
                /\ ns[1].call = c
                /\ \A k \in 2..Len(ns) : ns[k].type \in {"error", "end"}
                /\ Len(ns) = IF pc[c] = "backend" THEN 1 ELSE 2

\* C6 witness: a run with a handle has ended in failure after its error
\* notification, and the call has failed.
C6_Witness ==
    /\ runManager[1] # NoRun
    /\ pc[1] = "failed"
    /\ Len(NoticesOfType(1, {"error"})) = 1

\* The backend of call c rejected: either the failure reached the caller or the
\* error notification was emitted for it.
BackendFailed(c) ==
    err[c] = "BackendFailure" \/ NoticesOfType(c, {"error"}) # << >>

\* C7 (as claimed): once the backend of a call has rejected and the call has
\* failed, an error notification was emitted if there is a run handle, no end
\* notification was, the call failed with the backend's own failure value, and
\* no cache update was issued.
C7_BackendFailureReraisedVerbatim ==
    \A c \in Calls :
        (BackendFailed(c) /\ pc[c] = "failed") =>
            /\ runManager[c] # NoRun => Len(NoticesOfType(c, {"error"})) = 1
            /\ NoticesOfType(c, {"end"}) = << >>
            /\ err[c] = "BackendFailure"
            /\ UpdateCallsOf(c) = << >>

\* C9: a generate call whose prompts argument is no array has failed with the
\* invalid-argument error, and no cache lookup, cache update, notification or
\* backend invocation was made for it.
C9_NonArrayRejectedFirst ==
    \A c \in Calls :
        (Entered(c) /\ ~prompts[c].isArray) =>
            /\ pc[c] = "failed"
            /\ err[c] = "InvalidArgument"
            /\ LookupCallsOf(c) = << >>
            /\ UpdateCallsOf(c) = << >>
            /\ NoticesOf(c) = << >>
            /\ BackendCallsOf(c) = << >>

\* C9 witness: a call with a non-array argument on an instance with a cache and
\* with sinks has failed.
C9_Witness ==
    /\ cacheOn /\ sinks[1]
    /\ ~prompts[1].isArray
    /\ pc[1] = "failed"

\* C8 (as claimed): when the second call is made with the prompts of the first
\* and another stop sequence, the two calls use different serialized-parameters
\* strings, so that no lookup of the second call answers a generation that the
\* first call computed and stored.
C8_OtherStopNoSharedResult ==
    (CachedCall(1) /\ CachedCall(2) /\ prompts[1] = prompts[2] /\ stop[1] # stop[2]) =>
        \A i \in 1..Len(lookedUp[2]) :
            HitAt(2, i) => (llmStringKey[1] # llmStringKey[2] /\ lookedUp[2][i].call # 1)

\* The type discriminators the registry of deserialize lists.
RegisteredTypes == {"openai"}
\* Names every object literal answers through Object.prototype.
InheritedNames == {"constructor", "toString"}

C11_AdapterOneCandidatePerPrompt ==
    adPc = "done" =>
        /\ Len(adGenerations) = Len(adPrompts)
        /\ adAsked = adPrompts
        /\ Len(adAnswers) = Len(adPrompts)
        /\ \A i \in 1..Len(adPrompts) :
               adGenerations[i] = <<[text |-> adAnswers[i]]>>

\* C11 witness: a batch of at least two different prompts whose _calls
\* resolved with different strings has returned.
C11_Witness ==
    /\ adPc = "done"
    /\ Len(adPrompts) >= 2
    /\ adPrompts[1] # adPrompts[2]
    /\ adAnswers[1] # adAnswers[2]

\* C12: what call(prompt, stop) returns is the text of the first candidate of
\* the first per-prompt result of the generate([prompt], stop) it made, and
\* that result is the stored one when the lookup hit and the backend's when
\* the lookup missed or there is no cache.
C12_CallReturnsFirstCandidateText ==
    \A c \in Calls :
        returned[c] # NoText =>
            LET g == result[c].generations[1]
            IN  /\ prompts[c] = ArrayOf(<<g.prompt>>)
                /\ returned[c] = Candidates(g)[1].text
                /\ returned[c] = [of |-> g, candidate |-> 1]
                /\ IF CachedCall(c) /\ HitAt(c, 1)
                   THEN g = lookedUp[c][1] /\ BackendCallsOf(c) = << >>
                   ELSE g = BackendGeneration(g.prompt, 1, c) /\ Len(BackendCallsOf(c)) = 1

\* C12 witness: one call has returned a text taken from the cache and the
\* other a text taken from the backend.
C12_Witness ==
    /\ returned[1] # NoText /\ returned[1].of.src = "stored"
    /\ returned[2] # NoText /\ returned[2].of.src = "backend"

\* C13: in a call that goes to the backend, _generate is not invoked before
\* the start notification (if any sink is set) has completed, and not at all
\* when it failed; it is given the run handle that start notification
\* produced, or none without sinks; the end notification is emitted only once
\* the backend has produced its output, and with a run handle nothing is
\* returned, spliced or written to the cache before it has completed.
C13_StartThenBackendThenEnd ==
    \A c \in Calls :
        LET starts == NoticesOfType(c, {"start"})
            ends   == NoticesOfType(c, {"end"})
            errors == NoticesOfType(c, {"error"})
            calls  == BackendCallsOf(c)
        IN  /\ pc[c] \in {"idle", "lookups", "configure", "starting"} => calls = << >>
            /\ (pc[c] = "failed" /\ err[c] = "SinkFailure" /\ ends = << >>
                    /\ errors = << >>) => calls = << >>
            /\ (sinks[c] /\ calls # << >>) => Len(starts) = 1
            /\ \A k \in 1..Len(calls) :
                   IF starts # << >>
                   THEN /\ calls[k].run = starts[1].run
                        /\ calls[k].run = runManager[c]
                        /\ calls[k].run # NoRun
                   ELSE calls[k].run = NoRun
            /\ ends # << >> => (calls # << >> /\ output[c] # NoOutput)
            /\ pc[c] = "ending" =>
                   (result[c] = NoResult /\ UpdateCallsOf(c) = << >>)
            /\ (starts # << >> /\ (result[c] # NoResult \/ UpdateCallsOf(c) # << >>)) =>
                   (Len(ends) = 1 /\ ends[1].run = starts[1].run /\ pc[c] # "ending")

\* C13 witness: a call with sinks has returned a result computed by the
\* backend, which was given the started run's handle, after its end notice.
C13_Witness ==
    /\ pc[1] = "done" /\ sinks[1]
    /\ Len(BackendCallsOf(1)) = 1
    /\ BackendCallsOf(1)[1].run = runManager[1] /\ runManager[1] # NoRun
    /\ NoticesOfType(1, {"end"}) # << >>

\* C14: no generate call invokes the backend more than once, and from the
\* moment the backend, a cache operation or a notification of the call has
\* failed, the call's backend invocations stay as they are.
C14_BackendAtMostOnce ==
    /\ [](\A c \in Calls : Len(BackendCallsOf(c)) <= 1)
    /\ [][\A c \in Calls :
             pc[c] \in {"erroring", "failed"} => BackendCallsOf(c)' = BackendCallsOf(c)]_vars

\* C14 witness: a call whose backend was invoked once has failed, be it with
\* the backend's failure, a sink's or a cache write's.
C14_Witness ==
    /\ pc[1] = "failed"
    /\ Len(BackendCallsOf(1)) = 1
    /\ err[1] \in {"BackendFailure", "SinkFailure", "CacheFailure"}

\* C15: once a lookup of a cache-enabled call has rejected, the call has
\* failed with the cache's failure and stays so, however the other lookups of
\* the batch turn out: it never invokes the backend, emits no notification,
\* issues no cache update and returns nothing.
C15_LookupFailureFailsCall ==
    \A c \in Calls :
        (\E i \in 1..Len(lookedUp[c]) : lookedUp[c][i] = FailedLookup) =>
            /\ pc[c] = "failed" /\ err[c] = "CacheFailure"
            /\ BackendCallsOf(c) = << >>
            /\ NoticesOf(c) = << >>
            /\ UpdateCallsOf(c) = << >>
            /\ result[c] = NoResult

\* C15 witness: all lookups of a batch of a call with sinks have settled, one
\* rejected, one hit and one missed.
C15_Witness ==
    /\ pendingLookups[1] = {} /\ pc[1] = "failed"
    /\ \E i, j, k \in 1..Len(lookedUp[1]) :
           /\ lookedUp[1][i] = FailedLookup
           /\ HitAt(1, j)
           /\ MissAt(1, k)
    /\ sinks[1]

\* The generations of call c as merged from its lookups and its backend call.
MergedOf(c) ==
    [i \in 1..Len(Items(c)) |->
        IF MissAt(c, i)
        THEN LET j == CHOOSE k \in 1..Len(missingPromptIndices[c]) :
                          missingPromptIndices[c][k] = i
             IN  BackendGeneration(Items(c)[i], j, c)
        ELSE lookedUp[c][i]]

\* A cache write of call c has rejected.
UpdateFailed(c) ==
    /\ pc[c] = "failed" /\ err[c] = "CacheFailure"
    /\ \A i \in 1..Len(lookedUp[c]) : lookedUp[c][i] # FailedLookup

\* C16: when a cache write of a call has rejected, the write of every missed
\* prompt of that call has all the same been issued, one per miss and each
\* with its prompt and the backend's result for it, and the in-memory
\* sequence still holds the stored result at every hit and the backend's
\* result at every miss.
C16_FailedWriteLeavesOthersAndResult ==
    \A c \in Calls :
        UpdateFailed(c) =>
            /\ Len(UpdateCallsOf(c)) = Len(missingPromptIndices[c])
            /\ \A j \in 1..Len(missingPromptIndices[c]) :
                   LET i == missingPromptIndices[c][j]
                   IN  UpdateCallsOf(c)[j] =
                           [call |-> c, prompt |-> Items(c)[i],
                            key |-> LlmStringKey(stop[c]),
                            value |-> BackendGeneration(Items(c)[i], j, c)]
            /\ generations[c] = MergedOf(c)

\* C16 witness: after a backend call for two missed prompts and next to a
\* hit, one cache write has rejected and the other has reached the store.
C16_Witness ==
    /\ UpdateFailed(1) /\ pendingUpdates[1] = {}
    /\ Len(missingPromptIndices[1]) >= 2
    /\ \E i \in 1..Len(Items(1)) : HitAt(1, i)
    /\ \E i \in 1..Len(Items(1)) :
           /\ MissAt(1, i)
           /\ Lookup(cache, Items(1)[i], llmStringKey[1]) \in
                  {u.value : u \in {UpdateCallsOf(1)[j] : j \in 1..Len(UpdateCallsOf(1))}}

\* C17: every generate call that returns, whatever a call overlapping it
\* does, returns one result per prompt of its own batch, each a stored or a
\* computed result for that prompt; and a call that missed a prompt has made
\* its own backend call for its own misses and returns the results of that
\* call, also when the other call has asked the backend for the same prompt.
C17_OverlappingCallsNotCoalesced ==
    \A c \in Calls :
        pc[c] = "done" =>
            LET gens == result[c].generations
            IN  /\ Len(gens) = Len(Items(c))
                /\ \A i \in 1..Len(gens) :
                       /\ gens[i].src \in {"stored", "backend"}
                       /\ gens[i].prompt = Items(c)[i]
                       /\ MissAt(c, i) => (gens[i].src = "backend" /\ gens[i].call = c)
                /\ (\E i \in 1..Len(gens) : MissAt(c, i)) =>
                       /\ Len(BackendCallsOf(c)) = 1
                       /\ Len(BackendCallsOf(c)[1].prompts) = Len(MissSubset(c))

\* C17 witness: two overlapping calls for the same prompt under the same key
\* have both missed it, both invoked the backend for it while the other's
\* call was on record, and both returned.
C17_Witness ==
    /\ pc[1] = "done" /\ pc[2] = "done"
    /\ Items(1) # << >> /\ Items(1) = Items(2)
    /\ llmStringKey[1] = llmStringKey[2]
    /\ MissAt(1, 1) /\ MissAt(2, 1)
    /\ Len(BackendCallsOf(1)) = 1 /\ Len(BackendCallsOf(2)) = 1
    /\ result[1].generations[1].call = 1 /\ result[2].generations[1].call = 2

\* The results call c returned at the indices that hold the prompt text p.
ResultsFor(c, p) ==
    {result[c].generations[k] : k \in {i \in 1..Len(Items(c)) : Items(c)[i] = p}}

PairwiseDistinct(items) ==
    \A i, k \in 1..Len(items) : items[i] = items[k] => i = k

\* C18 (as claimed): a generate call made with the arguments of a generate
\* call that has returned invokes the backend zero times and, when it
\* returns, returns the same result at every index as the first call did.
C18_RepeatReturnsSameResults ==
    /\ BackendCallsOf(2) = << >>
    /\ (pc[1] = "done" /\ pc[2] = "done") =>
           result[2].generations = result[1].generations

\* C18 (amended): a generate call made with the arguments of a generate call
\* that has returned invokes the backend zero times, emits no notification
\* and writes nothing to the cache; when it returns, its result at every
\* index is one the first call returned for the same prompt text, the same
\* at all indices that hold that text, and the whole sequence is the first
\* call's when no prompt text occurs twice in the batch.
C18_RepeatReturnsStoredPerText ==
    /\ BackendCallsOf(2) = << >>
    /\ NoticesOf(2) = << >>
    /\ UpdateCallsOf(2) = << >>
    /\ (pc[1] = "done" /\ pc[2] = "done") =>
           /\ Len(result[2].generations) = Len(result[1].generations)
           /\ \A i \in 1..Len(Items(2)) :
                  /\ result[2].generations[i] \in ResultsFor(1, Items(2)[i])
                  /\ ResultsFor(2, Items(2)[i]) = {result[2].generations[i]}
           /\ PairwiseDistinct(Items(2)) =>
                  result[2].generations = result[1].generations

\* C18 witness: the second call has returned, from the cache alone, the
\* results the backend computed in the first call for two different prompts.
C18_Witness ==
    /\ pc[1] = "done" /\ pc[2] = "done"
    /\ Len(Items(2)) = 2 /\ Items(2)[1] # Items(2)[2]
    /\ \A i \in 1..Len(Items(2)) : HitAt(2, i)
    /\ result[1].generations[1].src = "backend"
    /\ result[2].generations = result[1].generations

\* The call has reached the point where _generate is invoked, if it was to be.
PastStart(c) == pc[c] \in {"backend", "ending", "erroring", "updates", "done"}

AllHit(c) == LookupsSettled(c) /\ \A i \in 1..Len(Items(c)) : HitAt(c, i)

\* C19 (as claimed): a cache-enabled call whose lookups all hit emits no
\* notification and has no run; a cache-enabled call that has completed with
\* at least one miss has created exactly one run, and the prompts of its
\* start notification all are prompts whose lookup missed.
C19_OneRunIffMiss ==
    \A c \in Calls :
        CachedCall(c) =>
            /\ AllHit(c) => (NoticesOf(c) = << >> /\ runManager[c] = NoRun)
            /\ (pc[c] = "done" /\ \E i \in 1..Len(Items(c)) : MissAt(c, i)) =>
                   /\ Len(NoticesOfType(c, {"start"})) = 1
                   /\ runManager[c] # NoRun
                   /\ \A k \in 1..Len(NoticesOfType(c, {"start"})[1].prompts) :
                          \E i \in 1..Len(Items(c)) :
                              /\ MissAt(c, i)
                              /\ NoticesOfType(c, {"start"})[1].prompts[k] = Items(c)[i]

\* C19 (amended): a cache-enabled call whose lookups all hit emits no
\* notification and has no run. A cache-enabled call never starts more than
\* one run, and starts one only after all its lookups have resolved and one
\* has missed. Once such a call with a miss has got to its backend, it has,
\* with a sink set, emitted exactly one start notification, which carries
\* one prompt per missed index, in the order the misses were reported, and no
\* prompt of an index that hit; without any sink it has no run and has emitted
\* nothing.
C19_OneRunIffMissAndSinks ==
    \A c \in Calls :
        CachedCall(c) =>
            LET starts  == NoticesOfType(c, {"start"})
                missing == missingPromptIndices[c]
            IN  /\ AllHit(c) =>
                       (NoticesOf(c) = << >> /\ runManager[c] = NoRun
                            /\ (pc[c] = "done" => result[c].run = NoRun))
                /\ Len(starts) <= 1
                /\ ~sinks[c] => (NoticesOf(c) = << >> /\ runManager[c] = NoRun)
                /\ starts # << >> =>
                       /\ LookupsSettled(c)
                       /\ \E i \in 1..Len(Items(c)) : MissAt(c, i)
                       /\ \A i \in 1..Len(Items(c)) : MissAt(c, i) \/ HitAt(c, i)
                       /\ Len(starts[1].prompts) = Len(missing)
                       /\ \A j \in 1..Len(missing) :
                              /\ MissAt(c, missing[j])
                              /\ starts[1].prompts[j] = Items(c)[missing[j]]
                       /\ \A i \in 1..Len(Items(c)) :
                              Cardinality({j \in 1..Len(missing) : missing[j] = i})
                                  = IF MissAt(c, i) THEN 1 ELSE 0
                /\ (PastStart(c) /\ sinks[c] /\ missing # << >>) =>
                       (Len(starts) = 1 /\ runManager[c] = starts[1].run
                            /\ runManager[c] # NoRun)

\* C19 witness: a call with a sink has completed after one hit and one miss,
\* with one run whose start notification carried the missed prompt alone.
C19_Witness ==
    /\ CachedCall(1) /\ sinks[1] /\ pc[1] = "done"
    /\ Len(Items(1)) = 2 /\ HitAt(1, 1) /\ MissAt(1, 2)
    /\ Len(NoticesOfType(1, {"start"})) = 1
    /\ NoticesOfType(1, {"start"})[1].prompts = <<Items(1)[2]>>

====
